---- MODULE Spec2Model ----
(***************************************************************************)
(* Model of st_quiz.py (IM Quizzer): the Streamlit script that derives     *)
(* section labels and section texts from the cached treatments dataset,    *)
(* scrapes the links the user lists, combines both into article_text and   *)
(* hands it to create_quiz.                                                *)
(*                                                                         *)
(* Python strings on which the script computes (titles, labels, texts,     *)
(* links) are sequences of Unicode code points, so that strip, split,      *)
(* splitlines, join and sorted are modelled by what they do.  Strings the  *)
(* script only passes along (exception messages, the model's answer, the   *)
(* literal UI messages) are TLA+ strings.                                  *)
(***************************************************************************)
EXTENDS Integers, Sequences, FiniteSets, TLC

VARIABLES
    pd,                  \* TRUE iff "import pandas" succeeded (line 12-15)
    data,                \* cached result of load_treatments_data()
    secrets,             \* st.secrets: the two values create_quiz requires
    links_text,          \* widget: text area with the links
    selected_titles,     \* widget: multiselect "Titel"
    selected_sections,   \* widget: multiselect "Avsnitt"
    section_labels,      \* options of the "Avsnitt" multiselect in this run
    section_text_output, \* texts gathered for the selected sections
    scrapeCache,         \* st.cache_data memo of scrape_links: links -> results
    pc,                  \* position of the script run
    links,               \* links of this run (line 246)
    results,             \* scrape_links' result list (being built or returned)
    scraped_texts,       \* line 251
    article_text,        \* lines 245, 252
    messages,            \* what this run has put on the page, in order
    request,             \* arguments of this run's create_quiz call, or NoRequest
    fetchLog,            \* requests.get calls issued in this run, in order
    llmCalls,            \* chain.invoke calls issued in this run
    generate_quiz,       \* the button's value in this run (line 241)
    response             \* how this run's chain.invoke ended, if it was called

vars == << pd, data, secrets, links_text, selected_titles, selected_sections,
           section_labels, section_text_output, scrapeCache, pc, links,
           results, scraped_texts, article_text, messages, request,
           fetchLog, llmCalls, generate_quiz, response >>

---------------------------------------------------------------------------
(* Bounds of the model.                                                    *)

MaxRows == 3         \* rows of the dataset in SelSpec
MaxSelected == 2     \* entries the user picks in one multiselect

---------------------------------------------------------------------------
(* Python values and string operations.                                    *)

\* Python's None (and pandas' NaN): a value that is no string.
None == << -1 >>

\* bool(x) of a str or None: "if row.get(...)", "if not article_text".
Truthy(x) == x # None /\ x # << >>

\* str.isspace() of one character (the code points below 256 that are white).
IsSpace(c) == c \in {9, 10, 11, 12, 13, 28, 29, 30, 31, 32, 133, 160}

RECURSIVE LStrip(_)
LStrip(s) ==
    IF s = << >> THEN << >>
    ELSE IF IsSpace(Head(s)) THEN LStrip(Tail(s)) ELSE s

RECURSIVE RStrip(_)
RStrip(s) ==
    IF s = << >> THEN << >>
    ELSE IF IsSpace(s[Len(s)]) THEN RStrip(SubSeq(s, 1, Len(s) - 1)) ELSE s

\* str.strip()
Strip(s) == RStrip(LStrip(s))

\* sep.join(parts)
RECURSIVE Join(_, _)
Join(sep, parts) ==
    IF parts = << >> THEN << >>
    ELSE IF Len(parts) = 1 THEN parts[1]
    ELSE parts[1] \o sep \o Join(sep, Tail(parts))

\* str.split() with no argument: the maximal runs of non-white characters.
RECURSIVE SplitFrom(_, _, _)
SplitFrom(s, word, acc) ==
    IF s = << >> THEN (IF word = << >> THEN acc ELSE Append(acc, word))
    ELSE IF IsSpace(Head(s))
         THEN SplitFrom(Tail(s), << >>,
                        IF word = << >> THEN acc ELSE Append(acc, word))
         ELSE SplitFrom(Tail(s), Append(word, Head(s)), acc)

Split(s) == SplitFrom(s, << >>, << >>)

\* A line boundary of str.splitlines() (code points below 256).
IsLineBreak(c) == c \in {10, 11, 12, 13, 28, 29, 30, 133}

\* str.splitlines(): "\r\n" is one boundary, no empty last line.
RECURSIVE SplitLinesFrom(_, _, _)
SplitLinesFrom(s, line, acc) ==
    IF s = << >> THEN (IF line = << >> THEN acc ELSE Append(acc, line))
    ELSE IF IsLineBreak(Head(s))
         THEN LET rest == IF Head(s) = 13 /\ Len(s) > 1 /\ s[2] = 10
                          THEN Tail(Tail(s)) ELSE Tail(s)
              IN  SplitLinesFrom(rest, << >>, Append(acc, line))
         ELSE SplitLinesFrom(Tail(s), Append(line, Head(s)), acc)

SplitLines(s) == SplitLinesFrom(s, << >>, << >>)

\* s < t for two str: lexicographic by code point.
RECURSIVE StrLess(_, _)
StrLess(s, t) ==
    IF t = << >> THEN FALSE
    ELSE IF s = << >> THEN TRUE
    ELSE IF Head(s) # Head(t) THEN Head(s) < Head(t)
    ELSE StrLess(Tail(s), Tail(t))

\* sorted(S) of a set of str
RECURSIVE Sorted(_)
Sorted(S) ==
    IF S = {} THEN << >>
    ELSE LET m == CHOOSE x \in S : \A y \in S \ {x} : StrLess(x, y)
         IN  << m >> \o Sorted(S \ {m})

\* The elements of a sequence.
Range(seq) == { seq[i] : i \in DOMAIN seq }

\* The concatenation of a sequence of sequences.
RECURSIVE Flatten(_)
Flatten(seqs) ==
    IF seqs = << >> THEN << >> ELSE Head(seqs) \o Flatten(Tail(seqs))

---------------------------------------------------------------------------
(* The dataset and the section selection (lines 167-234).                  *)

\* load_treatments_data() returned None (no file), or the rows it returned.
NoData == [found |-> FALSE, rows |-> << >>]
Loaded(rows) == [found |-> TRUE, rows |-> rows]

\* str(x) as the f-string of line 211 formats a cell.
Str(x) == IF x = None THEN << 78, 111, 110, 101 >> ELSE x

\* The section label of a row: title + " - " + section_title.
Label(row) == Str(row.title) \o << 32, 45, 32 >> \o Str(row.section_title)

\* Options of the "Titel" multiselect.
Titles ==
    IF data = NoData THEN << >>
    ELSE IF pd THEN Sorted({ data.rows[i].title : i \in DOMAIN data.rows } \ {None})
    ELSE Sorted({ data.rows[i].title :
                   i \in { j \in DOMAIN data.rows : Truthy(data.rows[j].title) } })

\* The local "filtered" of the branch taken.
Filtered(sel) ==
    IF pd
    THEN SelectSeq(data.rows, LAMBDA row : /\ row.title \in Range(sel)
                                      /\ row.title # None
                                      /\ row.section_title # None)
    ELSE SelectSeq(data.rows, LAMBDA row : row.title \in Range(sel))

\* Mutant of SectionLabels: the csv branch does not skip the rows without
\* section_title.
SectionLabelsUnfiltered(sel) ==
    IF data = NoData THEN << >>
    ELSE LET filtered == Filtered(sel)
         IN  Sorted({ Label(filtered[i]) : i \in DOMAIN filtered })

\* Options of the "Avsnitt" multiselect.
SectionLabels(sel) ==
    IF data = NoData THEN << >>
    ELSE LET filtered == Filtered(sel)
         IN  IF pd
             THEN Sorted({ Label(filtered[i]) : i \in DOMAIN filtered })
             ELSE Sorted({ Label(filtered[i]) :
                             i \in { j \in DOMAIN filtered :
                                       /\ Truthy(filtered[j].title)
                                       /\ Truthy(filtered[j].section_title) } })

\* The texts one selected label contributes (the inner "texts").
TextsOf(filtered, section_label) ==
    LET rows == SelectSeq(filtered, LAMBDA row :
                    /\ IF pd THEN row.section_text # None
                             ELSE Truthy(row.section_text)
                    /\ Label(row) = section_label)
    IN  [ i \in DOMAIN rows |-> rows[i].section_text ]

\* Mutant of SectionTextOutput: the texts of the selected rows are taken
\* in the order of the dataset, not label by label.
SectionTextOutputDatasetOrder(sel, sections) ==
    IF data = NoData THEN << >>
    ELSE LET rows == SelectSeq(Filtered(sel), LAMBDA row :
                         /\ IF pd THEN row.section_text # None
                                  ELSE Truthy(row.section_text)
                         /\ Label(row) \in Range(sections))
         IN  [ i \in DOMAIN rows |-> rows[i].section_text ]

\* section_text_output after the loop over selected_sections.
SectionTextOutput(sel, sections) ==
    IF data = NoData THEN << >>
    ELSE LET filtered == Filtered(sel)
         IN  Flatten([ k \in DOMAIN sections |-> TextsOf(filtered, sections[k]) ])

---------------------------------------------------------------------------
(* What a run puts on the page.                                            *)

Msg(kind, text) == [kind |-> kind, text |-> text]

\* Lines 173-174, 203-204, 233-234 (the texts are transliterated to ASCII).
BaseMessages(sections) ==
    IF data = NoData
    THEN << Msg("error", "internetmedicin data kunde inte hittas i projektmappen.") >>
    ELSE IF sections = << >>
         THEN << Msg("info", "Valj ett eller flera avsnitt for att visa text.") >>
         ELSE << >>

\* Line 255
ScrapeWarning == Msg("warning", "Vissa lankar kunde inte skrapas.")

\* Line 258
SelectionEmptyError == Msg("error", "Valj minst ett avsnitt for att skapa quiz.")

\* Line 113, shown by line 272 as str(exc)
SecretsMissingError == Msg("error", "Azure OpenAI secrets are missing.")

\* No create_quiz call in this run.
NoRequest == [called |-> FALSE]

\* chain.invoke was not called, returned "text", or raised with str(exc) "text".
NoResponse == [status |-> "none"]
Returned(text) == [status |-> "ok", text |-> text]
Raised(text) == [status |-> "error", text |-> text]

\* The link_text argument is a list (scraped_texts) or a str ("").
ListVal(xs) == [type |-> "list", value |-> xs]
StrVal(s) == [type |-> "str", value |-> s]

---------------------------------------------------------------------------
(* The inputs the model draws from.                                        *)

\* Sequences over S of length at most n.
RECURSIVE SeqsUpTo(_, _)
SeqsUpTo(S, n) ==
    IF n = 0 THEN { << >> }
    ELSE LET shorter == SeqsUpTo(S, n - 1)
         IN  shorter \cup { Append(p, x) : p \in shorter, x \in S }

\* What one interaction with a multiselect holding "chosen" leaves in it:
\* one more of the options, at the end, or one entry less.
Choices(chosen, options) ==
    { Append(chosen, x) : x \in IF Len(chosen) < MaxSelected
                                 THEN options \ Range(chosen) ELSE {} }
    \cup { SubSeq(chosen, 1, i - 1) \o SubSeq(chosen, i + 1, Len(chosen)) :
             i \in DOMAIN chosen }

\* An empty cell as the loader of the branch delivers it: pandas reads it as
\* NaN, csv.DictReader as "".
Empty(p) == IF p THEN None ELSE << >>

\* "a", "a - b" / "b - " / "x", "y": cells of the datasets of SelSpec.  The
\* labels of ("a", "b - ") and ("a - b", "") are the same string.
SelTitles(p) == { << 97 >>, << 97, 32, 45, 32, 98 >> }
SelSectionTitles(p) == { Empty(p), << 98, 32, 45, 32 >> }
SelTexts(p) == { Empty(p), << 120 >>, << 121 >> }

SelRows(p) == [ title : SelTitles(p), section_title : SelSectionTitles(p),
                section_text : SelTexts(p) ]

SelDatasets(p) == { Loaded(rows) : rows \in SeqsUpTo(SelRows(p), MaxRows) }

\* Datasets of Spec: no file, or the rows ("a", "c", "x\n"),
\* ("a", "b - ", " ") and (empty, "c", "x").
MainDatasets(p) ==
    { NoData,
      Loaded(<< [title |-> << 97 >>, section_title |-> << 99 >>,
                 section_text |-> << 120, 10 >>],
                [title |-> << 97 >>, section_title |-> << 98, 32, 45, 32 >>,
                 section_text |-> << 32 >>],
                [title |-> Empty(p), section_title |-> << 99 >>,
                 section_text |-> << 120 >>] >>) }

\* Contents of the links text area: "", " u \n\nv", "v\r\nv".
LinkTexts == { << >>, << 32, 117, 32, 10, 10, 118 >>, << 118, 13, 10, 118 >> }

\* A secret: absent, empty or set ("k").
SecretValues == { None, << >>, << 107 >> }

\* Visible text of a fetched page before normalisation: "\n ", " a \n b ".
Bodies == { << 10, 32 >>, << 32, 97, 32, 10, 32, 98, 32 >> }

\* str(exc) of a failed fetch: "timeout".
FetchErrors == { << 116, 105, 109, 101, 111, 117, 116 >> }

\* What the completion returns, and the message of a failure of it.
Quizzes == { "## Quiz", "" }
CompletionErrors == { "429 quota exceeded" }

---------------------------------------------------------------------------
(* A script run without the button: a widget changed (lines 158-241).      *)

ResetRun(sections) ==
    /\ pc' = "done"
    /\ links' = << >>
    /\ results' = << >>
    /\ scraped_texts' = << >>
    /\ article_text' = << >>
    /\ messages' = BaseMessages(sections)
    /\ request' = NoRequest
    /\ fetchLog' = << >>
    /\ llmCalls' = 0
    /\ generate_quiz' = FALSE
    /\ response' = NoResponse

\* The user changes the "Titel" multiselect.  The options of "Avsnitt"
\* follow; a multiselect whose options changed starts empty again.
SelectTitles ==
    /\ pc = "done"
    /\ data # NoData
    /\ \E sel \in Choices(selected_titles, Range(Titles)) :
         /\ selected_titles' = sel
         /\ section_labels' = SectionLabels(sel)
         /\ selected_sections' =
              IF SectionLabels(sel) = section_labels THEN selected_sections
              ELSE << >>
         /\ section_text_output' = SectionTextOutput(sel, selected_sections')
         /\ ResetRun(selected_sections')
    /\ UNCHANGED << pd, data, secrets, links_text, scrapeCache >>

\* The user changes the "Avsnitt" multiselect.
SelectSections ==
    /\ pc = "done"
    /\ data # NoData
    /\ \E sections \in Choices(selected_sections, Range(section_labels)) :
         /\ selected_sections' = sections
         /\ section_text_output' = SectionTextOutput(selected_titles, sections)
         /\ ResetRun(sections)
    /\ UNCHANGED << pd, data, secrets, links_text, selected_titles,
                    section_labels, scrapeCache >>

\* The user edits the links text area.
EditLinks ==
    /\ pc = "done"
    /\ \E text \in LinkTexts :
         /\ text # links_text
         /\ links_text' = text
    /\ ResetRun(selected_sections)
    /\ UNCHANGED << pd, data, secrets, selected_titles, selected_sections,
                    section_labels, section_text_output, scrapeCache >>

---------------------------------------------------------------------------
(* The run the button starts (lines 244-272).                              *)

\* Line 246
ParseLinks(text) ==
    LET stripped == [ i \in DOMAIN SplitLines(text) |-> Strip(SplitLines(text)[i]) ]
    IN  SelectSeq(stripped, LAMBDA link : link # << >>)

\* Line 251
ScrapedTexts(scraped) ==
    LET ok == SelectSeq(scraped, LAMBDA item : "text" \in DOMAIN item)
    IN  [ i \in DOMAIN ok |-> ok[i].text ]

\* Line 253
ScrapeErrors(scraped) == SelectSeq(scraped, LAMBDA item : "error" \in DOMAIN item)

\* Line 245
SelectionText == Strip(Join(<< 10, 10 >>, section_text_output))

\* Mutant of Combined: the join is not stripped.
CombinedUnstripped(article, texts) == Join(<< 10, 10 >>, << article >> \o texts)

\* Mutant of Combined: the fetched texts are not appended.
CombinedSelectionOnly(article, texts) == article

\* Line 252
Combined(article, texts) == Strip(Join(<< 10, 10 >>, << article >> \o texts))

\* Mutant of SecretsMissing: only the key is required.
KeyMissing == ~Truthy(secrets.key)

\* Line 112: the condition under which create_quiz raises.
SecretsMissing == ~Truthy(secrets.key) \/ ~Truthy(secrets.endpoint)

\* Lines 257-272 up to the completion call: refuse an empty article_text,
\* or call create_quiz, which raises on missing secrets (shown by line 272)
\* or goes on to chain.invoke.
Generate(article, slot, shown) ==
    /\ article_text' = article
    /\ IF ~Truthy(article)
       THEN /\ messages' = Append(shown, SelectionEmptyError)
            /\ request' = NoRequest
            /\ pc' = "done"
       ELSE /\ request' = [called |-> TRUE, article |-> article, link_text |-> slot]
            /\ IF SecretsMissing
               THEN /\ messages' = Append(shown, SecretsMissingError)
                    /\ pc' = "done"
               ELSE /\ messages' = shown
                    /\ pc' = "llm"

\* Mutant of AfterScrape: a failed link ends the run with the warning.
AfterScrapeAbort(article, scraped, shown) ==
    /\ scraped_texts' = ScrapedTexts(scraped)
    /\ IF ScrapeErrors(scraped) # << >>
       THEN /\ article_text' = Combined(article, ScrapedTexts(scraped))
            /\ messages' = Append(shown, ScrapeWarning)
            /\ request' = NoRequest
            /\ pc' = "done"
       ELSE Generate(Combined(article, ScrapedTexts(scraped)),
                     ListVal(ScrapedTexts(scraped)), shown)

\* Lines 251-255 and on: scrape_links has returned "scraped".
AfterScrape(article, scraped, shown) ==
    /\ scraped_texts' = ScrapedTexts(scraped)
    /\ Generate(Combined(article, ScrapedTexts(scraped)),
                ListVal(ScrapedTexts(scraped)),
                IF ScrapeErrors(scraped) # << >>
                THEN Append(shown, ScrapeWarning) ELSE shown)

\* The memo of st.cache_data with the value of one more call.
Memoized(cache, key, value) ==
    [ k \in DOMAIN cache \cup {key} |-> IF k = key THEN value ELSE cache[k] ]

\* The user presses "Skapa quiz": the script runs with generate_quiz set,
\* up to its first request to the outside.  scrape_links is memoized by
\* st.cache_data: a list of links it was called with before is answered
\* from the memo.
ClickGenerate ==
    /\ pc = "done"
    /\ generate_quiz' = TRUE
    /\ links' = ParseLinks(links_text)
    /\ fetchLog' = << >>
    /\ llmCalls' = 0
    /\ response' = NoResponse
    /\ IF links' = << >>
       THEN /\ results' = << >>
            /\ scraped_texts' = << >>
            /\ Generate(SelectionText, StrVal(<< >>),
                        BaseMessages(selected_sections))
       ELSE IF links' \in DOMAIN scrapeCache
       THEN /\ results' = scrapeCache[links']
            /\ AfterScrape(SelectionText, scrapeCache[links'],
                           BaseMessages(selected_sections))
       ELSE /\ results' = << >>
            /\ scraped_texts' = << >>
            /\ article_text' = SelectionText
            /\ messages' = BaseMessages(selected_sections)
            /\ request' = NoRequest
            /\ pc' = "fetch"
    /\ UNCHANGED << pd, data, secrets, links_text, selected_titles,
                    selected_sections, section_labels, section_text_output,
                    scrapeCache >>

\* collapse of whitespace, line 142
Normalize(body) == Join(<< 32 >>, Split(body))

\* Mutant of FetchStep: the first failure ends the loop.
FetchStepStopOnError(item) ==
    /\ fetchLog' = Append(fetchLog, item.url)
    /\ results' = Append(results, item)
    /\ llmCalls' = llmCalls
    /\ IF Len(results') = Len(links) \/ "error" \in DOMAIN item
       THEN /\ scrapeCache' = Memoized(scrapeCache, links, results')
            /\ AfterScrape(article_text, results', messages)
       ELSE /\ UNCHANGED << scrapeCache, scraped_texts, article_text,
                            messages, request, pc >>
    /\ UNCHANGED << pd, data, secrets, links_text, selected_titles,
                    selected_sections, section_labels, section_text_output,
                    links, generate_quiz, response >>

\* One pass of the loop of scrape_links (lines 135-145) with the result
\* "item"; after the last link scrape_links returns, its value is memoized
\* and the script goes on.
FetchStep(item) ==
    /\ fetchLog' = Append(fetchLog, item.url)
    /\ results' = Append(results, item)
    /\ llmCalls' = llmCalls
    /\ IF Len(results') = Len(links)
       THEN /\ scrapeCache' = Memoized(scrapeCache, links, results')
            /\ AfterScrape(article_text, results', messages)
       ELSE /\ UNCHANGED << scrapeCache, scraped_texts, article_text,
                            messages, request, pc >>
    /\ UNCHANGED << pd, data, secrets, links_text, selected_titles,
                    selected_sections, section_labels, section_text_output,
                    links, generate_quiz, response >>

\* requests.get answers and the page parses.
FetchOk ==
    /\ pc = "fetch"
    /\ \E body \in Bodies :
         FetchStep([url |-> links[Len(results) + 1], text |-> Normalize(body)])

\* requests.get, raise_for_status or the parser raises.
FetchFail ==
    /\ pc = "fetch"
    /\ \E exc \in FetchErrors :
         FetchStep([url |-> links[Len(results) + 1], error |-> exc])

\* chain.invoke returns: lines 269-270.
CompletionOk ==
    /\ pc = "llm"
    /\ llmCalls' = llmCalls + 1
    /\ \E quiz \in Quizzes :
         /\ response' = Returned(quiz)
         /\ messages' = messages \o << Msg("divider", ""), Msg("markdown", quiz) >>
    /\ pc' = "done"
    /\ UNCHANGED << pd, data, secrets, links_text, selected_titles,
                    selected_sections, section_labels, section_text_output,
                    scrapeCache, links, results, scraped_texts, article_text,
                    request, fetchLog, generate_quiz >>

\* Mutant of CompletionFail: the exception is swallowed, nothing is shown.
CompletionFailSilent ==
    /\ pc = "llm"
    /\ llmCalls' = llmCalls + 1
    /\ \E exc \in CompletionErrors : response' = Raised(exc)
    /\ pc' = "done"
    /\ UNCHANGED << pd, data, secrets, links_text, selected_titles,
                    selected_sections, section_labels, section_text_output,
                    scrapeCache, links, results, scraped_texts, article_text,
                    request, fetchLog, generate_quiz, messages >>

\* Mutant of CompletionFail: the call is made again after a failure.
CompletionFailRetry ==
    /\ pc = "llm"
    /\ llmCalls' = llmCalls + 1
    /\ pc' = "llm"
    /\ UNCHANGED << pd, data, secrets, links_text, selected_titles,
                    selected_sections, section_labels, section_text_output,
                    scrapeCache, links, results, scraped_texts, article_text,
                    request, fetchLog, generate_quiz, messages, response >>

\* chain.invoke raises: lines 271-272.
CompletionFail ==
    /\ pc = "llm"
    /\ llmCalls' = llmCalls + 1
    /\ \E exc \in CompletionErrors :
         /\ response' = Raised(exc)
         /\ messages' = Append(messages, Msg("error", exc))
    /\ pc' = "done"
    /\ UNCHANGED << pd, data, secrets, links_text, selected_titles,
                    selected_sections, section_labels, section_text_output,
                    scrapeCache, links, results, scraped_texts, article_text,
                    request, fetchLog, generate_quiz >>

---------------------------------------------------------------------------
(* The specifications.                                                     *)

\* The state after the first run of the script: nothing selected, nothing
\* scraped yet.
InitRun ==
    /\ selected_titles = << >>
    /\ selected_sections = << >>
    /\ section_labels = << >>
    /\ section_text_output = << >>
    /\ scrapeCache = << >>
    /\ pc = "done"
    /\ links = << >>
    /\ results = << >>
    /\ scraped_texts = << >>
    /\ article_text = << >>
    /\ messages = BaseMessages(<< >>)
    /\ request = NoRequest
    /\ fetchLog = << >>
    /\ llmCalls = 0
    /\ generate_quiz = FALSE
    /\ response = NoResponse

Init ==
    /\ pd \in BOOLEAN
    /\ data \in MainDatasets(pd)
    /\ secrets \in [key : SecretValues, endpoint : SecretValues]
    /\ links_text = << >>
    /\ InitRun

Next ==
    \/ SelectTitles
    \/ SelectSections
    \/ EditLinks
    \/ ClickGenerate
    \/ FetchOk
    \/ FetchFail
    \/ CompletionOk
    \/ CompletionFail

Spec == Init /\ [][Next]_vars

\* The section selection alone, over every dataset of at most MaxRows rows.
SelInit ==
    /\ pd \in BOOLEAN
    /\ data \in SelDatasets(pd)
    /\ secrets = [key |-> << 107 >>, endpoint |-> << 107 >>]
    /\ links_text = << >>
    /\ InitRun

SelNext == SelectTitles \/ SelectSections

SelSpec == SelInit /\ [][SelNext]_vars

---------------------------------------------------------------------------
(* The claims.                                                             *)

\* TRUE iff every character of every text of the sequence is white space.
AllWhite(texts) ==
    \A i \in DOMAIN texts : \A j \in DOMAIN texts[i] : IsSpace(texts[i][j])

\* The texts of the successful results, in order.
OkTexts(scraped) ==
    LET ok == { i \in DOMAIN scraped : "text" \in DOMAIN scraped[i] }
        nth(k) == CHOOSE i \in ok : Cardinality({ j \in ok : j < i }) = k - 1
    IN  [ k \in 1..Cardinality(ok) |-> scraped[nth(k)].text ]

\* TRUE iff scrape_links has returned in this run.
Scraped == generate_quiz /\ links # << >> /\ pc # "fetch"

\* TRUE iff "scraped" answers the links "urls" one for one.
OneForOne(urls, scraped) ==
    /\ Len(scraped) = Len(urls)
    /\ \A i \in DOMAIN scraped :
         /\ scraped[i].url = urls[i]
         /\ ("text" \in DOMAIN scraped[i]) # ("error" \in DOMAIN scraped[i])

\* C1: in a run the button started, if the selected section texts and the
\* successfully fetched texts hold nothing but white space, create_quiz is
\* not called, the completion is not called and the last thing shown is the
\* error that asks for a selection.
C1_EmptyArticleRefused ==
    ( /\ generate_quiz
      /\ pc # "fetch"
      /\ AllWhite(section_text_output \o OkTexts(results)) )
    => /\ request = NoRequest
       /\ llmCalls = 0
       /\ pc = "done"
       /\ messages # << >>
       /\ messages[Len(messages)] = SelectionEmptyError

\* C1 witness: a section of white space is selected, a page without text
\* was fetched, and the run was refused.
C1_Witness ==
    /\ generate_quiz
    /\ pc = "done"
    /\ section_text_output # << >>
    /\ OkTexts(results) # << >>
    /\ AllWhite(section_text_output \o OkTexts(results))
    /\ request = NoRequest

\* C2: what scrape_links returns, and what its memo holds, has one result
\* per link, the i-th for the i-th link, each with either a text or an
\* error; while links are left the loop goes on whatever the earlier
\* results were, and a call that fetched at all fetched every link in order.
C2_OneResultPerLink ==
    /\ Scraped => OneForOne(links, results)
    /\ \A key \in DOMAIN scrapeCache : OneForOne(key, scrapeCache[key])
    /\ pc = "fetch" =>
         /\ Len(results) < Len(links)
         /\ fetchLog = SubSeq(links, 1, Len(results))
         /\ OneForOne(fetchLog, results)
    /\ (Scraped /\ fetchLog # << >>) => fetchLog = links

\* C2 witness: the first of two links failed and the second was fetched.
C2_Witness ==
    /\ Scraped
    /\ Len(links) = 2
    /\ "error" \in DOMAIN results[1]
    /\ "text" \in DOMAIN results[2]
    /\ fetchLog = links

\* C3: when create_quiz is called with the key or the endpoint absent, the
\* completion is not called, the run ends, no quiz is shown and the last
\* thing shown is the error of the missing secrets.
C3_SecretsMissingRaises ==
    ( /\ request # NoRequest
      /\ (secrets.key = None \/ secrets.endpoint = None) )
    => /\ llmCalls = 0
       /\ response = NoResponse
       /\ pc = "done"
       /\ messages # << >>
       /\ messages[Len(messages)] = SecretsMissingError
       /\ \A i \in DOMAIN messages : messages[i].kind # "markdown"

\* C3 witness: create_quiz was called with a key and without an endpoint.
C3_Witness ==
    /\ request # NoRequest
    /\ secrets.key = << 107 >>
    /\ secrets.endpoint = None
    /\ pc = "done"

\* The rows whose title is selected and whose section_title is not empty.
LabelledRows ==
    { i \in DOMAIN data.rows :
        /\ data.rows[i].title \in Range(selected_titles)
        /\ data.rows[i].section_title \notin { None, << >> } }

\* C4: the options of "Avsnitt" are exactly the values
\* title + " - " + section_title of the rows whose title is selected and
\* whose section_title is not empty, each once, in ascending order; with no
\* title selected there are none.
C4_SectionLabels ==
    /\ Range(section_labels) =
         { data.rows[i].title \o << 32, 45, 32 >> \o data.rows[i].section_title :
             i \in LabelledRows }
    /\ \A i, j \in DOMAIN section_labels :
         i < j => StrLess(section_labels[i], section_labels[j])
    /\ selected_titles = << >> => section_labels = << >>

\* C4 witness: two titles are selected, there are two labels to order and
\* a row of a selected title has no section_title.
C4_Witness ==
    /\ Len(selected_titles) = 2
    /\ Len(section_labels) = 2
    /\ \E i \in DOMAIN data.rows :
         /\ data.rows[i].title \in Range(selected_titles)
         /\ ~Truthy(data.rows[i].section_title)

\* The indices, ascending, of the rows of the selected titles that carry
\* the label and a section_text the predicate "counts" accepts.  In the
\* pandas branch the rows without section_title are not among them.
RowsOf(label, counts(_)) ==
    LET is == { i \in DOMAIN data.rows :
                  /\ data.rows[i].title \in Range(selected_titles)
                  /\ pd => data.rows[i].section_title # None
                  /\ Label(data.rows[i]) = label
                  /\ counts(data.rows[i].section_text) }
        nth(k) == CHOOSE i \in is : Cardinality({ j \in is : j < i }) = k - 1
    IN  [ k \in 1..Cardinality(is) |-> data.rows[nth(k)].section_text ]

\* The texts of the selected labels, label by label in the order of the
\* selection, in the order of the dataset within a label.
Gathered(counts(_)) ==
    Flatten([ k \in DOMAIN selected_sections |-> RowsOf(selected_sections[k], counts) ])

Warnings == { i \in DOMAIN messages : messages[i] = ScrapeWarning }

\* C6: once scrape_links has returned with a failed link, the run has shown
\* the warning exactly once and goes on: when the selection and the fetched
\* pages hold any text, create_quiz is called, and its article is the
\* trimmed blank-line join of the selection's text and the texts of the
\* successful results, without the error of any failed one.
C6_FailuresDoNotAbort ==
    ( Scraped /\ \E i \in DOMAIN results : "error" \in DOMAIN results[i] )
    => /\ Cardinality(Warnings) = 1
       /\ ~AllWhite(section_text_output \o OkTexts(results)) =>
            /\ request # NoRequest
            /\ request.article =
                 Strip(Join(<< 10, 10 >>, << SelectionText >> \o OkTexts(results)))

\* C6 witness: the first link failed, the second gave text, and create_quiz
\* was called with the selection's text and that text.
C6_Witness ==
    /\ Scraped
    /\ Len(results) = 2
    /\ "error" \in DOMAIN results[1]
    /\ "text" \in DOMAIN results[2]
    /\ results[2].text # << >>
    /\ SelectionText # << >>
    /\ request # NoRequest
    /\ Cardinality(Warnings) = 1

\* The quiz texts among what the run has shown.
Shown(kind) == { i \in DOMAIN messages : messages[i].kind = kind }

\* C7: when the completion call has raised, or create_quiz raised before
\* it, the last thing shown is the error with the exception's message and
\* no quiz text is shown; a quiz text is shown only when the completion
\* call has returned, once, and it is the returned text unchanged.
C7_FailureShownNoQuiz ==
    /\ response.status = "error" =>
         /\ pc = "done"
         /\ messages # << >>
         /\ messages[Len(messages)] = Msg("error", response.text)
         /\ Shown("markdown") = {}
    /\ (request # NoRequest /\ SecretsMissing) =>
         /\ messages # << >>
         /\ messages[Len(messages)] = SecretsMissingError
         /\ Shown("markdown") = {}
    /\ Shown("markdown") # {} =>
         /\ response.status = "ok"
         /\ Shown("markdown") = { Len(messages) }
         /\ messages[Len(messages)].text = response.text
    /\ response.status = "ok" => Shown("markdown") # {}

\* C7 witness: the completion call raised after a link had failed.
C7_Witness ==
    /\ response.status = "error"
    /\ Cardinality(Warnings) = 1
    /\ pc = "done"

\* C8: the button is pressed again, on the same links, after a run in which
\* a link failed: scrape_links fetches the links again.
C8_RetriggerFetchesAgain ==
    [][ ( /\ generate_quiz
          /\ pc = "done"
          /\ \E i \in DOMAIN results : "error" \in DOMAIN results[i]
          /\ generate_quiz'
          /\ links' = links )
        => pc' = "fetch" ]_vars

\* C9: in a run the links are requested in the order of the list, each at
\* most once, the completion is called at most once, not before every
\* fetch of the run has ended, and after the call has ended the run is over.
C9_SequentialNoRetry ==
    /\ Len(fetchLog) <= Len(links)
    /\ fetchLog = SubSeq(links, 1, Len(fetchLog))
    /\ pc = "fetch" => Len(fetchLog) = Len(results)
    /\ llmCalls <= 1
    /\ (pc = "llm" \/ llmCalls = 1) => fetchLog \in { links, << >> }
    /\ llmCalls = 1 <=> response # NoResponse
    /\ response # NoResponse => pc = "done"

\* C9 witness: two links were fetched, then the completion call failed.
C9_Witness ==
    /\ Len(fetchLog) = 2
    /\ fetchLog[1] # fetchLog[2]
    /\ response.status = "error"
    /\ llmCalls = 1

\* C10: when create_quiz is called with links given, link_text is the list
\* of the successfully fetched texts, and the article is the selection's
\* text followed by the same texts, joined by blank lines and trimmed; with
\* no links link_text is "" and the article is the selection's text.
C10_FetchedTextTwice ==
    request # NoRequest =>
      IF links # << >>
      THEN /\ request.link_text = ListVal(OkTexts(results))
           /\ request.article =
                Strip(SelectionText \o Flatten([ i \in DOMAIN OkTexts(results) |->
                                                   << 10, 10 >> \o OkTexts(results)[i] ]))
      ELSE /\ request.link_text = StrVal(<< >>)
           /\ request.article = SelectionText

\* C10 witness: create_quiz was called with a selection and a fetched text.
C10_Witness ==
    /\ request # NoRequest
    /\ SelectionText # << >>
    /\ \E i \in DOMAIN results :
         "text" \in DOMAIN results[i] /\ results[i].text # << >>

====
